---- MODULE Spec2Model ----
(***************************************************************************)
(* Model of crypto_analysis_gdrive.py: a single-threaded process that sets *)
(* up a Drive service once, then runs job() immediately and again every    *)
(* five minutes.  A job fetches a market snapshot, analyses it, writes a   *)
(* spreadsheet to a timestamp-named local file, uploads it (create on the  *)
(* first run, update afterwards) and removes the local file.               *)
(*                                                                         *)
(* Every call that leaves the process (HTTP fetch, Drive API, file system) *)
(* is a nondeterministic choice between its success and its failure.       *)
(* Columns the analysis never reads (symbol, volume_24h) and the wall-clock*)
(* 'timestamp' string of the analysis are left out of the records.         *)
(***************************************************************************)
EXTENDS Integers, Sequences, FiniteSets, TLC

VARIABLES
    pc,          \* position of the single thread of control
    FILE_ID,     \* module-level global (line 18)
    df,          \* job(): result of fetch_crypto_data()
    analysis,    \* job(): result of analyze_data(df)
    local_file,  \* update_excel_and_upload(): path chosen at line 81
    pending,     \* exception in flight inside update_excel_and_upload
    result,      \* outcome of update_excel_and_upload as seen by job()
    job_error,   \* exception caught at the cycle boundary (line 194)
    fatal,       \* exception caught by main() (line 208)
    timer,       \* seconds until the scheduled job is due (schedule library)
    disk,        \* local files that exist
    stampNow,    \* path that the current wall-clock second formats to
    drive,       \* remote objects created in the Drive folder
    public,      \* remote objects with the anyone/reader permission
    log          \* what the current cycle has done so far, in order

vars == <<pc, FILE_ID, df, analysis, local_file, pending, result, job_error,
          fatal, timer, disk, stampNow, drive, public, log>>

----------------------------------------------------------------------------
\* Bounds of the model

\* longest snapshot handed to analyze_data on its own
MaxRows == 6
\* longest snapshot a modelled fetch returns inside a cycle
MaxFetched == 2
\* number of identifiers the Drive service can hand out
MaxIds == 2
\* number of files the local disk can hold
DiskCapacity == 2

----------------------------------------------------------------------------
\* Program constants

\* Python's None, for identifiers and paths (FILE_ID = None)
None == 0
\* FOLDER_ID, the fixed parent folder
FOLDER_ID == "15fCqiIeeo62SRHd8eLPLhtmHF6XJPuX_"
\* the permission body of lines 129-132
permission == [type |-> "anyone", role |-> "reader"]
\* schedule.every(5).minutes, in seconds
IntervalNone == 300 - 300
Interval == 300
\* df.head(5)
HeadN == 5

FileIds == 1..MaxIds
Paths == 1..(DiskCapacity + 1)

----------------------------------------------------------------------------
\* Snapshots

Row(n, p, c, ch) ==
    [name |-> n, price_usd |-> p, market_cap |-> c, price_change_24h |-> ch]

AssetA == Row("A", 10, 300, 5)
AssetB == Row("B", 40, 500, -10)
AssetC == Row("C", 1, 100, 5)
AssetD == Row("D", 7, 500, -10)
Assets == {AssetA, AssetB, AssetC, AssetD}

SeqsUpTo(S, n) == UNION {[1..k -> S] : k \in 1..n}

\* the API is asked for order=market_cap_desc (line 38)
IsCapDescending(rows) ==
    \A i \in 1..(Len(rows) - 1) : rows[i].market_cap >= rows[i + 1].market_cap

AllSnapshots == SeqsUpTo(Assets, MaxRows)
FetchedSnapshots == {s \in SeqsUpTo(Assets, MaxFetched) : IsCapDescending(s)}

\* fetch_crypto_data() returns None
NoData == [kind |-> "none", rows |-> <<>>]
\* a frame with numeric columns
Frame(rows) == [kind |-> "frame", rows |-> rows]
\* a frame whose columns are there but hold no numbers (dtype object)
ObjectFrame == [kind |-> "object", rows |-> <<>>]

----------------------------------------------------------------------------
\* analyze_data (lines 63-72)

\* df.head(n)
headAll(rows, n) == rows
head(rows, n) == SubSeq(rows, 1, IF Len(rows) < n THEN Len(rows) ELSE n)

\* frame[['name', 'market_cap']].to_dict('records')
NameCap(rows) ==
    [i \in 1..Len(rows) |-> [name |-> rows[i].name, market_cap |-> rows[i].market_cap]]

NameChange(r) == [name |-> r.name, price_change_24h |-> r.price_change_24h]

RECURSIVE SumPrice(_)
SumPrice(rows) ==
    IF rows = <<>> THEN 0 ELSE rows[1].price_usd + SumPrice(Tail(rows))

\* df['price_usd'].mean(), kept exact as numerator and denominator
mean(rows) == [num |-> SumPrice(rows), den |-> Len(rows)]

\* keep='first': a later row replaces the best so far only when strictly larger
LargerLast(best, r) == r.price_change_24h >= best.price_change_24h
Larger(best, r) == r.price_change_24h > best.price_change_24h
Smaller(best, r) == r.price_change_24h < best.price_change_24h

RECURSIVE Scan(_, _, _)
Scan(rows, best, largest) ==
    IF rows = <<>> THEN best
    ELSE LET r == rows[1]
             take == IF largest THEN Larger(best, r) ELSE Smaller(best, r)
         IN  Scan(Tail(rows), IF take THEN r ELSE best, largest)

\* df.nlargest(1, 'price_change_24h') / df.nsmallest(1, ...), first row of it
nlargest1(rows) == Scan(Tail(rows), rows[1], TRUE)
nsmallest1(rows) == Scan(Tail(rows), rows[1], FALSE)

Top5(rows) == NameCap(head(rows, HeadN))

NoAnalysis == [kind |-> "none"]

analyze_data(rows) ==
    [kind |-> "analysis",
     top_5_by_market_cap |-> Top5(rows),
     average_price |-> mean(rows),
     highest_price_change |-> NameChange(nlargest1(rows)),
     lowest_price_change |-> NameChange(nsmallest1(rows))]

----------------------------------------------------------------------------
\* fetch_crypto_data (lines 32-61)

\* what the market-data endpoint can answer
Responses ==
    {[kind |-> k, rows |-> <<>>] :
        k \in {"transport_error", "malformed", "empty", "missing_columns", "object"}}
    \cup {[kind |-> "rows", rows |-> s] : s \in FetchedSnapshots}

\* every exception inside the try is turned into None (lines 59-61)
fetch_crypto_data(resp) ==
    CASE resp.kind = "rows" -> Frame(resp.rows)
      [] resp.kind = "object" -> ObjectFrame
      [] OTHER -> NoData

----------------------------------------------------------------------------
\* get_sharing_link (lines 158-160)
get_sharing_link(file_id) == <<"https://drive.google.com/file/d/", file_id, "/view">>

----------------------------------------------------------------------------
\* The log of one cycle

\* target and ret are identifiers or paths (or None); body is the request body
Event(op, target, body, ok, ret) ==
    [op |-> op, target |-> target, body |-> body, ok |-> ok, ret |-> ret]

NoBody == [none |-> TRUE]
\* file_metadata of lines 103-107, as far as the folder goes
file_metadata == [name |-> "Crypto_Analysis_Live.xlsx", parents |-> <<FOLDER_ID>>]

NoResult == [kind |-> "none", value |-> None, err |-> "none"]
Returned(v) == [kind |-> "return", value |-> v, err |-> "none"]
Raised(e) == [kind |-> "raise", value |-> None, err |-> e]

Min(S) == CHOOSE x \in S : \A y \in S : x <= y

----------------------------------------------------------------------------
\* Control flow decisions

\* `if df is not None:` (line 178)
JobProceedsAlways(d) == TRUE
JobProceeds(d) == d.kind # "none"

\* `if FILE_ID:` (line 114)
UseUpdateNever(fid) == FALSE
UseUpdate(fid) == fid # None

\* `FILE_ID = file.get('id')` (line 125)
StoreIdDropped(fid, id) == fid
StoreId(fid, id) == id

\* `finally:` (line 143) runs whether or not an exception is in flight
CleanupOnlyOnSuccess(exc) == exc = "none"
CleanupRuns(exc) == TRUE

\* the permission call follows a successful create (lines 127-135)
AfterCreateSkipPermission == "finally"
AfterCreate == "permission"

\* `except Exception as e:` inside job() (lines 194-195): job() returns normally
OnJobErrorEscapes == "exited"
OnJobError == "job_end"

\* setup_google_drive re-raises (line 30); main() catches and returns (208-209)
OnSetupError == "exited"

\* schedule.run_pending() is called from the loop of lines 204-206 only, on
\* the one thread of the process: a due job is run when no job is running
SchedulerAnywhere(p) == p \notin {"setup", "exited"}
SchedulerIdle(p) == p = "idle"

\* `except HttpError` (lines 139-141) prints and re-raises: FILE_ID is as it was
HandleResetOnHttpError(fid) == None
HandleOnHttpError(fid) == fid

\* a failed Drive call is not repeated: the exception leaves the try block
\* for the finally block (lines 139-143)
RetryAfterHttpError == "remote"
AfterHttpError == "finally"

\* `except Exception` around os.remove (lines 149-150) prints a warning: the
\* exception in flight, if any, stays the one in flight
RemoveErrorEscalates(exc) == "OSError"
OnRemoveError(exc) == exc

----------------------------------------------------------------------------
Init ==
    /\ pc = "setup"
    /\ FILE_ID = None
    /\ df = NoData
    /\ analysis = NoAnalysis
    /\ local_file = None
    /\ pending = "none"
    /\ result = NoResult
    /\ job_error = "none"
    /\ fatal = "none"
    /\ timer = 0
    /\ disk = {}
    /\ stampNow = None
    /\ drive = {}
    /\ public = {}
    /\ log = <<>>

\* setup_google_drive() returns the service (lines 20-27, 169-170)
SetupOk ==
    /\ pc = "setup"
    /\ pc' = "job"
    /\ UNCHANGED <<fatal, FILE_ID, df, analysis, local_file, pending, result, job_error,
                   timer, disk, stampNow, drive, public, log>>

\* setup_google_drive() raises (lines 28-30), main() prints and ends (208-209)
SetupFail ==
    /\ pc = "setup"
    /\ pc' = OnSetupError
    /\ fatal' = "SetupError"
    /\ UNCHANGED <<FILE_ID, df, analysis, local_file, pending, result, job_error,
                   timer, disk, stampNow, drive, public, log>>

\* job() lines 173-178: fetch and test for None
Fetch ==
    /\ pc = "job"
    /\ \E resp \in Responses :
         /\ df' = fetch_crypto_data(resp)
         /\ log' = <<Event("fetch", None, NoBody, resp.kind \in {"rows", "object"}, None)>>
    /\ pc' = IF JobProceeds(df') THEN "analyze" ELSE "job_end"
    /\ UNCHANGED <<fatal, FILE_ID, analysis, local_file, pending, result, job_error,
                   timer, disk, stampNow, drive, public>>

\* job() line 180: analyze_data(df); it raises on anything but a numeric frame
Analyze ==
    /\ pc = "analyze"
    /\ IF df.kind = "frame"
       THEN /\ analysis' = analyze_data(df.rows)
            /\ log' = Append(log, Event("analyze", None, NoBody, TRUE, None))
            /\ pc' = "upload"
            /\ UNCHANGED job_error
       ELSE /\ log' = Append(log, Event("analyze", None, NoBody, FALSE, None))
            /\ job_error' = "TypeError"
            /\ pc' = OnJobError
            /\ UNCHANGED analysis
    /\ UNCHANGED <<fatal, FILE_ID, df, local_file, pending, result,
                   timer, disk, stampNow, drive, public>>

\* datetime.now().strftime('%Y%m%d_%H%M%S') as a path (lines 80-81): the path
\* of the current second if one was already formatted, else a path no file has
strftime(stamp, files) == IF stamp # None THEN stamp ELSE Min(Paths \ files)

\* update_excel_and_upload lines 78-83: choose the local path
EnterUpload ==
    /\ pc = "upload"
    /\ local_file' = strftime(stampNow, disk)
    /\ stampNow' = local_file'
    /\ log' = Append(log, Event("call", FILE_ID, NoBody, TRUE, None))
    /\ pc' = "write"
    /\ UNCHANGED <<fatal, FILE_ID, df, analysis, pending, result, job_error,
                   timer, disk, drive, public>>

\* the disk has room to hold the file at path f
HasRoom(f) == f \in disk \/ Cardinality(disk) < DiskCapacity

\* lines 86-100: the ExcelWriter block.  It can fail before the file is
\* opened, or later, when the writer has already put a file on the disk.
\* A failure here is outside the inner try: lines 154-156 re-raise it.
Write ==
    /\ pc = "write"
    /\ \/ /\ HasRoom(local_file)
          /\ disk' = disk \cup {local_file}
          /\ log' = Append(log, Event("write", local_file, NoBody, TRUE, None))
          /\ pc' = "prepare"
          /\ UNCHANGED result
       \/ /\ \E left \in BOOLEAN :
               /\ left => HasRoom(local_file)
               /\ disk' = IF left THEN disk \cup {local_file} ELSE disk
          /\ log' = Append(log, Event("write", local_file, NoBody, FALSE, None))
          /\ result' = Raised("OSError")
          /\ pc' = "upload_exit"
    /\ UNCHANGED <<fatal, FILE_ID, df, analysis, local_file, pending, job_error,
                   timer, stampNow, drive, public>>

\* lines 103-111: MediaFileUpload opens the local file; outside the inner try
Prepare ==
    /\ pc = "prepare"
    /\ \E ok \in BOOLEAN :
         /\ log' = Append(log, Event("prepare", local_file, NoBody, ok, None))
         /\ IF ok
            THEN pc' = "remote" /\ UNCHANGED result
            ELSE pc' = "upload_exit" /\ result' = Raised("OSError")
    /\ UNCHANGED <<fatal, FILE_ID, df, analysis, local_file, pending, job_error,
                   timer, disk, stampNow, drive, public>>

\* lines 113-125: update the known object, or create one and record its id
Remote ==
    /\ pc = "remote"
    /\ IF UseUpdate(FILE_ID)
       THEN /\ \E ok \in BOOLEAN :
                 /\ log' = Append(log, Event("update", FILE_ID, NoBody, ok, None))
                 /\ pending' = IF ok THEN "none" ELSE "HttpError"
                 /\ pc' = IF ok THEN "finally" ELSE AfterHttpError
                 /\ FILE_ID' = IF ok THEN FILE_ID ELSE HandleOnHttpError(FILE_ID)
            /\ UNCHANGED drive
       ELSE \/ /\ drive # FileIds
               /\ LET id == Min(FileIds \ drive)
                  IN  /\ drive' = drive \cup {id}
                      /\ FILE_ID' = StoreId(FILE_ID, id)
                      /\ log' = Append(log, Event("create", None, file_metadata, TRUE, id))
               /\ pc' = AfterCreate
               /\ UNCHANGED pending
            \/ /\ log' = Append(log, Event("create", None, file_metadata, FALSE, None))
               /\ pending' = "HttpError"
               /\ pc' = AfterHttpError
               /\ FILE_ID' = HandleOnHttpError(FILE_ID)
               /\ UNCHANGED drive
    /\ UNCHANGED <<fatal, df, analysis, local_file, result, job_error,
                   timer, disk, stampNow, public>>

\* lines 127-135: grant anyone/reader on FILE_ID
Permission ==
    /\ pc = "permission"
    /\ \E ok \in BOOLEAN :
         /\ log' = Append(log, Event("permission", FILE_ID, permission, ok, None))
         /\ public' = IF ok THEN public \cup {FILE_ID} ELSE public
         /\ pending' = IF ok THEN "none" ELSE "HttpError"
         /\ FILE_ID' = IF ok THEN FILE_ID ELSE HandleOnHttpError(FILE_ID)
    /\ pc' = "finally"
    /\ UNCHANGED <<fatal, df, analysis, local_file, result, job_error,
                   timer, disk, stampNow, drive>>

\* lines 139-152: the finally block removes the local file, swallowing a
\* failure of os.remove; then the pending exception goes on to the caller
\* (through the re-raise of lines 154-156) or FILE_ID is returned
Finally ==
    /\ pc = "finally"
    /\ IF CleanupRuns(pending) /\ local_file \in disk
       THEN \E removed \in BOOLEAN :
              /\ log' = Append(log, Event("remove", local_file, NoBody, removed, None))
              /\ disk' = IF removed THEN disk \ {local_file} ELSE disk
              /\ pending' = IF removed THEN pending ELSE OnRemoveError(pending)
       ELSE UNCHANGED <<log, disk, pending>>
    /\ result' = IF pending' = "none" THEN Returned(FILE_ID) ELSE Raised(pending')
    /\ pc' = "upload_exit"
    /\ UNCHANGED <<fatal, FILE_ID, df, analysis, local_file, job_error,
                   timer, stampNow, drive, public>>

\* job() lines 183-195: print the link, or catch what the upload raised
AfterUpload ==
    /\ pc = "upload_exit"
    /\ IF result.kind = "return"
       THEN /\ log' = Append(log, Event("link", result.value, NoBody, TRUE, None))
            /\ pc' = "job_end"
            /\ UNCHANGED job_error
       ELSE /\ job_error' = result.err
            /\ pc' = OnJobError
            /\ UNCHANGED log
    /\ UNCHANGED <<fatal, FILE_ID, df, analysis, local_file, pending, result,
                   timer, disk, stampNow, drive, public>>

\* job() returns to the scheduler: next_run = now + 5 minutes (lines 198-201
\* after the first job, schedule.run_pending afterwards); locals are gone
JobEnd ==
    /\ pc = "job_end"
    /\ pc' = "idle"
    /\ timer' = Interval
    /\ df' = NoData
    /\ analysis' = NoAnalysis
    /\ local_file' = None
    /\ pending' = "none"
    /\ result' = NoResult
    /\ job_error' = "none"
    /\ log' = <<>>
    /\ UNCHANGED <<fatal, FILE_ID, disk, stampNow, drive, public>>

\* one second of wall-clock time passes (time.sleep(1) at line 206, or time
\* spent inside any call)
Tick ==
    /\ pc # "exited"
    /\ timer' = IF timer > 0 THEN timer - 1 ELSE 0
    /\ stampNow' = None
    /\ UNCHANGED <<fatal, pc, FILE_ID, df, analysis, local_file, pending, result, job_error,
                   disk, drive, public, log>>

\* schedule.run_pending() finds the job due (line 205)
RunPending ==
    /\ SchedulerIdle(pc)
    /\ timer = 0
    /\ pc' = "job"
    /\ UNCHANGED <<fatal, FILE_ID, df, analysis, local_file, pending, result, job_error,
                   timer, disk, stampNow, drive, public, log>>

Next ==
    \/ SetupOk
    \/ SetupFail
    \/ Fetch
    \/ Analyze
    \/ EnterUpload
    \/ Write
    \/ Prepare
    \/ Remote
    \/ Permission
    \/ Finally
    \/ AfterUpload
    \/ JobEnd
    \/ Tick
    \/ RunPending

Spec == Init /\ [][Next]_vars

\* the while-True loop of main() keeps running: job() returns to it, seconds
\* pass, and a due job is run
FairSpec == Spec /\ WF_vars(JobEnd) /\ WF_vars(Tick) /\ WF_vars(RunPending)

\* analyze_data on its own, over every snapshot of up to MaxRows rows
AnalyzeInit ==
    /\ pc = "analyze"
    /\ df \in {Frame(s) : s \in AllSnapshots}
    /\ FILE_ID = None
    /\ analysis = NoAnalysis
    /\ local_file = None
    /\ pending = "none"
    /\ result = NoResult
    /\ job_error = "none"
    /\ fatal = "none"
    /\ timer = 0
    /\ disk = {}
    /\ stampNow = None
    /\ drive = {}
    /\ public = {}
    /\ log = <<>>

AnalyzeSpec == AnalyzeInit /\ [][Analyze]_vars

TypeOK ==
    /\ pc \in {"setup", "job", "analyze", "upload", "write", "prepare", "remote",
               "permission", "finally", "upload_exit", "job_end", "idle", "exited"}
    /\ FILE_ID \in FileIds \cup {None}
    /\ local_file \in Paths \cup {None}
    /\ disk \subseteq Paths
    /\ Cardinality(disk) <= DiskCapacity
    /\ timer \in 0..Interval
    /\ drive \subseteq FileIds
    /\ public \subseteq drive

----------------------------------------------------------------------------
\* Reading the log of the current cycle

Calls(ops) == SelectSeq(log, LAMBDA e : e.op \in ops)
RemoteCalls == Calls({"create", "update", "permission"})
Has(ops) == Calls(ops) # <<>>
AllOk(ops) == \A i \in 1..Len(Calls(ops)) : Calls(ops)[i].ok
\* FILE_ID as it was when update_excel_and_upload was entered
HandleAtEntry == Calls({"call"})[1].target
\* update_excel_and_upload is over: it returned or raised
UploadOver == pc = "upload_exit" /\ Has({"call"})
\* the call got as far as the Drive request of lines 113-124
ReachedRemote == Has({"prepare"}) /\ AllOk({"write", "prepare"})

----------------------------------------------------------------------------
\* C1: when update_excel_and_upload runs with FILE_ID unset and every remote
\* call succeeds, the remote calls of the run are exactly one create in
\* FOLDER_ID followed by one anyone/reader permission on the identifier the
\* create returned; there is no update; FILE_ID is that identifier, it is not
\* None, and it is the value returned.
C1_CreateThenPermission ==
    (UploadOver /\ ReachedRemote /\ HandleAtEntry = None /\ AllOk({"create", "update", "permission"}))
    => /\ Len(RemoteCalls) = 2
       /\ RemoteCalls[1].op = "create"
       /\ RemoteCalls[1].body.parents = <<FOLDER_ID>>
       /\ RemoteCalls[1].ret # None
       /\ FILE_ID = RemoteCalls[1].ret
       /\ RemoteCalls[2].op = "permission"
       /\ RemoteCalls[2].target = RemoteCalls[1].ret
       /\ RemoteCalls[2].body = [type |-> "anyone", role |-> "reader"]
       /\ result = Returned(RemoteCalls[1].ret)
       /\ RemoteCalls[1].ret \in public

C1_Witness ==
    /\ UploadOver /\ HandleAtEntry = None
    /\ result.kind = "return" /\ result.value # None
    /\ Has({"create"}) /\ Has({"permission"})

\* C2: when update_excel_and_upload runs with FILE_ID set, its only remote
\* call is one update addressed to that identifier (no create, no
\* permission), FILE_ID is unchanged at the end, and when the update
\* succeeds the same identifier is returned.
C2_UpdateInPlace ==
    (UploadOver /\ ReachedRemote /\ HandleAtEntry # None)
    => /\ Len(RemoteCalls) = 1
       /\ RemoteCalls[1].op = "update"
       /\ RemoteCalls[1].target = HandleAtEntry
       /\ FILE_ID = HandleAtEntry
       /\ (RemoteCalls[1].ok => result = Returned(HandleAtEntry))

C2_Witness ==
    /\ UploadOver /\ HandleAtEntry # None
    /\ Has({"update"}) /\ AllOk({"update"})
    /\ result = Returned(FILE_ID)

\* C3 (as claimed): whatever the outcome of update_excel_and_upload, a local
\* file of the cycle that is still on the disk when the call is over has been
\* through a removal attempt, which failed.
C3_RemovalAlwaysAttempted ==
    (UploadOver /\ local_file \in disk)
    => \E i \in 1..Len(log) : log[i].op = "remove" /\ ~log[i].ok

\* C4: a failed create or update call reaches the caller as a raised error,
\* and the removal of the local file has been attempted, after the failed
\* call, by the time the error reaches the caller.
C4_RemoteFailureSurfacedAfterCleanup ==
    (UploadOver /\ Has({"create", "update"}) /\ ~AllOk({"create", "update"}))
    => /\ result = Raised("HttpError")
       /\ \E i, j \in 1..Len(log) :
            /\ log[i].op \in {"create", "update"} /\ ~log[i].ok
            /\ log[j].op = "remove" /\ log[j].target = local_file
            /\ i < j

C4_Witness ==
    /\ UploadOver
    /\ Has({"update"}) /\ ~AllOk({"update"})
    /\ result.kind = "raise"
    /\ Has({"remove"})

\* the fetch of the current cycle failed
FetchFailed == log # <<>> /\ log[1].op = "fetch" /\ ~log[1].ok

\* C5: in a cycle whose fetch fails, fetch_crypto_data returns None and
\* nothing is raised; the cycle goes straight to its end with the fetch as
\* its only step (no analysis, no local path, no remote call), and no step of
\* it changes the disk, the Drive folder or FILE_ID.
C5_FetchFailureSkipsCycle ==
    /\ [](FetchFailed =>
            /\ df = NoData /\ job_error = "none"
            /\ pc = "job_end"
            /\ Len(log) = 1
            /\ analysis = NoAnalysis /\ local_file = None /\ result = NoResult)
    /\ [][(FetchFailed \/ FetchFailed') =>
            /\ FILE_ID' = FILE_ID /\ disk' = disk
            /\ drive' = drive /\ public' = public]_vars

C5_Witness == FetchFailed /\ pc = "job_end" /\ FILE_ID # None

\* the cycle is over and it failed: a step raised, or the fetch gave None
FailedCycle == pc = "job_end" /\ (job_error # "none" \/ FetchFailed)

\* C6: a failure of a step of a cycle is caught inside job(): the process is
\* then at the end of the cycle, not ended; from there the scheduler goes
\* back to idle and, with the timer loop running, starts another cycle.
C6_FailedCycleThenNextCycle ==
    /\ []((job_error # "none" \/ FetchFailed) => pc = "job_end")
    /\ (FailedCycle ~> pc = "idle")
    /\ (FailedCycle ~> pc = "job")

C6_Witness ==
    /\ pc = "job_end" /\ job_error = "HttpError"
    /\ Has({"update"})

\* C7: when setup fails the process ends and no cycle has run: nothing was
\* fetched, no local file and no remote object exists, FILE_ID is unset; and
\* the process ends only that way, straight from the setup step.
C7_OnlySetupFailureEnds ==
    /\ [](fatal # "none" =>
            /\ pc = "exited"
            /\ log = <<>> /\ df = NoData /\ local_file = None
            /\ disk = {} /\ drive = {} /\ public = {} /\ FILE_ID = None)
    /\ [](pc = "exited" => fatal = "SetupError")
    /\ [][pc' = "exited" => pc \in {"setup", "exited"}]_vars

C7_Witness == pc = "exited" /\ fatal = "SetupError"

\* C8: FILE_ID is None at startup; it changes only from None to the
\* identifier returned by a create call that succeeds in that step, and
\* never afterwards; at most one object is ever created; and a cycle that
\* enters the upload with FILE_ID set addresses its update to that identifier.
C8_HandleSetOnce ==
    /\ [](pc = "setup" => FILE_ID = None)
    /\ [](Cardinality(drive) <= 1)
    /\ [](FILE_ID # None => drive = {FILE_ID})
    /\ []((Has({"call"}) /\ HandleAtEntry # None) =>
            /\ ~Has({"create"})
            /\ FILE_ID = HandleAtEntry
            /\ \A i \in 1..Len(log) : log[i].op = "update" => log[i].target = FILE_ID
            /\ ((pc \in {"finally", "upload_exit", "job_end"} /\ ReachedRemote)
                  => Has({"update"})))
    /\ [][FILE_ID' # FILE_ID =>
            /\ FILE_ID = None
            /\ drive' = drive \cup {FILE_ID'} /\ FILE_ID' \notin drive]_vars

C8_Witness ==
    /\ FILE_ID # None
    /\ Has({"update"}) /\ AllOk({"update"})
    /\ pc = "job_end"

----------------------------------------------------------------------------
\* Claims about analyze_data, checked over AnalyzeSpec

Analysed == analysis.kind = "analysis" /\ df.kind = "frame"

\* the number of rows of the snapshot whose market cap is larger than c
LargerCaps(rows, c) == Cardinality({i \in 1..Len(rows) : rows[i].market_cap > c})

\* C9 (as claimed): whatever the order of the rows, top_5_by_market_cap is in
\* descending market-cap order and holds the largest market caps of the
\* snapshot; for the rows A (300), B (500), C (100) in that order it is
\* B, A, C.
C9_Top5Descending ==
    Analysed =>
      LET top == analysis.top_5_by_market_cap
      IN  /\ \A i \in 1..(Len(top) - 1) : top[i].market_cap >= top[i + 1].market_cap
          /\ \A i \in 1..Len(top) : LargerCaps(df.rows, top[i].market_cap) < i
          /\ (df.rows = <<AssetA, AssetB, AssetC>> =>
                top = NameCap(<<AssetB, AssetA, AssetC>>))

\* row i holds the extreme of the column and no earlier row does
FirstMax(rows, i) ==
    /\ \A j \in 1..Len(rows) : rows[j].price_change_24h <= rows[i].price_change_24h
    /\ \A j \in 1..(i - 1) : rows[j].price_change_24h < rows[i].price_change_24h
FirstMin(rows, i) ==
    /\ \A j \in 1..Len(rows) : rows[j].price_change_24h >= rows[i].price_change_24h
    /\ \A j \in 1..(i - 1) : rows[j].price_change_24h > rows[i].price_change_24h

\* C10: highest_price_change is the name and change of the first row, in
\* input order, whose 24h change is the maximum of the snapshot, and
\* lowest_price_change those of the first row whose change is the minimum;
\* for A +5, B -10, C +5 the highest is A and the lowest is B.
C10_ExtremesFirstInInputOrder ==
    Analysed =>
      /\ \E i \in 1..Len(df.rows) :
           /\ FirstMax(df.rows, i)
           /\ analysis.highest_price_change = NameChange(df.rows[i])
      /\ \E i \in 1..Len(df.rows) :
           /\ FirstMin(df.rows, i)
           /\ analysis.lowest_price_change = NameChange(df.rows[i])
      /\ (df.rows = <<AssetA, AssetB, AssetC>> =>
            /\ analysis.highest_price_change.name = "A"
            /\ analysis.lowest_price_change.name = "B")

C10_Witness ==
    /\ Analysed
    /\ df.rows = <<AssetA, AssetB, AssetC>>
    /\ analysis.highest_price_change = [name |-> "A", price_change_24h |-> 5]
    /\ analysis.lowest_price_change = [name |-> "B", price_change_24h |-> -10]

----------------------------------------------------------------------------
\* Claims about the scheduler and the cycle as a whole, checked over Spec

\* C11: the one thread of control is in at most one cycle at a time: a cycle
\* is entered only from the end of setup (the immediate first run) or from
\* idle with the job due, and at that point nothing of an earlier cycle is
\* left in progress (its log, snapshot, path and result are gone).
C11_CyclesDoNotOverlap ==
    [][(pc' = "job" /\ pc # "job") =>
         /\ pc = "setup" \/ (pc = "idle" /\ timer = 0)
         /\ log = <<>> /\ df = NoData /\ analysis = NoAnalysis
         /\ local_file = None /\ result = NoResult /\ pending = "none"]_vars

C11_Witness == pc = "job" /\ FILE_ID # None /\ log = <<>>

\* C12 (as claimed): between cycles, a FILE_ID that is set names a remote
\* object on which the anyone/reader permission has been granted.
C12_HandleIsPublic ==
    (pc \in {"job_end", "idle"} /\ FILE_ID # None) => FILE_ID \in public

\* the event the step has just appended to the log
Latest(l) == l[Len(l)]

\* C13: FILE_ID changes only in the step in which a create call succeeds,
\* and then to the identifier that call returned; every other step (fetch,
\* analysis, write, a failed create, an update whether it succeeds or fails,
\* the permission call, local cleanup, the sharing link, the scheduler)
\* leaves it as it was.
C13_HandleFrame ==
    [][/\ pc # "remote" => FILE_ID' = FILE_ID
       /\ (pc = "remote" /\ log' # log /\ Latest(log').op = "update") => FILE_ID' = FILE_ID
       /\ (pc = "remote" /\ log' # log /\ ~Latest(log').ok) => FILE_ID' = FILE_ID
       /\ FILE_ID' # FILE_ID =>
            /\ Latest(log').op = "create" /\ Latest(log').ok
            /\ Latest(log').ret = FILE_ID']_vars

C13_Witness ==
    /\ pc = "finally"
    /\ Has({"update"}) /\ ~AllOk({"update"})
    /\ FILE_ID # None /\ FILE_ID = HandleAtEntry

\* the removal of the local file was attempted and failed
RemoveFailed == Has({"remove"}) /\ ~AllOk({"remove"})

\* C14: a failed removal of the local file changes nothing else of the
\* outcome: when the remote calls succeeded the call returns FILE_ID and the
\* cycle ends without a caught error, printing the link; when a remote call
\* failed, the error raised to job() and caught there is that HttpError.
C14_RemoveFailureNotEscalated ==
    (RemoveFailed /\ pc \in {"upload_exit", "job_end"}) =>
      IF AllOk({"create", "update", "permission"})
      THEN /\ result = Returned(FILE_ID) /\ FILE_ID # None
           /\ job_error = "none"
           /\ pc = "job_end" => Has({"link"})
      ELSE /\ result = Raised("HttpError")
           /\ pc = "job_end" => job_error = "HttpError"

C14_Witness ==
    /\ pc = "job_end" /\ RemoveFailed
    /\ Has({"link"}) /\ job_error = "none"

\* the place of a step in the order of a cycle
Rank(op) ==
    CASE op = "fetch" -> 1
      [] op = "analyze" -> 2
      [] op = "call" -> 3
      [] op = "write" -> 4
      [] op = "prepare" -> 5
      [] op \in {"create", "update"} -> 6
      [] op = "permission" -> 7
      [] op = "remove" -> 8
      [] op = "link" -> 9

\* C15: the steps of a cycle appear in its log in the order fetch, analyze,
\* write, upload preparation, create-or-update, permission, removal, link,
\* each at most once (so at most one fetch, one create-or-update and one
\* permission call per cycle), and after a failed step the cycle does
\* nothing more than the removal of the local file.
C15_StepsOnceInOrder ==
    /\ \A i, j \in 1..Len(log) : i < j => Rank(log[i].op) < Rank(log[j].op)
    /\ \A i, j \in 1..Len(log) :
         (i < j /\ ~log[i].ok /\ log[i].op # "remove") => log[j].op = "remove"

C15_Witness ==
    /\ pc = "job_end"
    /\ Has({"create"}) /\ ~AllOk({"create"})
    /\ Has({"remove"})

----------------------------------------------------------------------------
\* C17, checked over AnalyzeSpec

\* how many entries of the sequence s satisfy Test
CountOf(s, Test(_)) == Cardinality({i \in 1..Len(s) : Test(s[i])})

\* C17: for a snapshot of n rows, top_5_by_market_cap has exactly min(5, n)
\* entries, and every entry is the name and market cap of a row of the
\* snapshot, appearing in the list no more often than in the snapshot.
C17_Top5LengthAndMembers ==
    Analysed =>
      LET top == analysis.top_5_by_market_cap
          n == Len(df.rows)
      IN  /\ Len(top) = IF n < 5 THEN n ELSE 5
          /\ \A i \in 1..Len(top) :
               /\ CountOf(top, LAMBDA t : t = top[i]) <=
                    CountOf(df.rows, LAMBDA r : r.name = top[i].name
                                              /\ r.market_cap = top[i].market_cap)
               /\ DOMAIN top[i] = {"name", "market_cap"}

C17_Witness ==
    /\ Analysed
    /\ Len(df.rows) = 6
    /\ Len(analysis.top_5_by_market_cap) = 5

====
